---- MODULE Spec2Model ----
(***************************************************************************)
(* Raw audio format classifier (src/import): MultiFormatReader,            *)
(* SpecPowerMeter and FormatClassifier.                                    *)
(*                                                                         *)
(* The byte-level part (file, reader position, raw buffer, byte swapping,  *)
(* sample conversion, signal search, window integration) is modelled       *)
(* exactly.  The window lengths of the source (1024 samples, 32 windows,   *)
(* 1024 header bytes) are scaled down; every formula is written in terms   *)
(* of the named constants.  Floating point values are modelled as:         *)
(*   - exact integers where the source holds integers in floats,           *)
(*   - "U" : a float whose value the model does not determine,             *)
(*   - "N" : NaN,  "I" : +infinity,  "M" : -FLT_MAX.                       *)
(* The frequencies handed to the power meter are modelled as exact IEEE    *)
(* single precision values in units of 2^-28.                              *)
(***************************************************************************)
EXTENDS Integers, Sequences, FiniteSets, TLC

(* ---------------------------------------------------------------------- *)
(* Sizes.  Source values in brackets.                                      *)
(* ---------------------------------------------------------------------- *)
\* half of cSiglen [512]; cSiglen is even in the source
HalfSiglen == 2
\* samples per window [1024]
cSiglen == 2 * HalfSiglen
\* bytes of the raw buffer: a window of the widest format
cRawSiglen == 8 * cSiglen
\* polyphase taps [4]
cPolyTaps == 2
\* windows integrated per pass [32]
cNumInts == 3
\* windows skipped between two probes of the signal search [32]
cSigSearchGridSize == 2
\* header bytes skipped [1024]
cHeaderSkip == 3
\* samples the signal search computes its RMS over [64]
cRmsProbeLen == 2
\* most unsuccessful probes of the signal search a file of the family allows
MaxProbes == 2
\* longest transform length of a stand-alone power meter
MaxSigLen == 256
\* most samples a read of the stand-alone reader asks for
MaxRdCount == 2
\* largest offset the stand-alone reader is reset to
MaxRdOff == 2
\* number of stand-ins for the external FFT, less one
MaxSeed == 1
\* the files a whole construction is run on have every RunStep-th length
RunStep == 3
\* levels of bin power a stand-in spectrum takes
PowLevels == 3

Min(a, b) == IF a < b THEN a ELSE b
Max2(a, b) == IF a > b THEN a ELSE b

(* ---------------------------------------------------------------------- *)
(* MultiFormatReader                                                       *)
(* ---------------------------------------------------------------------- *)
Endians == {"Little", "Big"}
Formats == {"Int8", "Int16", "Int32", "Uint8", "Uint16", "Uint32", "Float", "Double"}

\* byte width of a sample, as the switch of ReadSamples selects it
Width(format) ==
  CASE format \in {"Int8", "Uint8"} -> 1
    [] format \in {"Int16", "Uint16"} -> 2
    [] format \in {"Int32", "Uint32", "Float"} -> 4
    [] format = "Double" -> 8

\* the byte of file f at offset off (0-based)
FileByte(f, off) == f[off + 1]

\* fread(dst + at, 1, want, fid): stores the bytes that remain, at most want,
\* and advances the position by the bytes stored
Fread(f, buf, at, p, want) ==
  LET got == Max2(0, Min(want, Len(f) - p))
  IN [buf |-> [j \in 1..Len(buf) |->
                 IF j - 1 >= at /\ j - 1 < at + got
                 THEN FileByte(f, p + (j - 1 - at)) ELSE buf[j]],
      pos |-> p + got,
      got |-> got]

\* the scattered read loop of Read (stride > 1), from sample n on
RECURSIVE ReadScattered(_, _, _, _, _, _, _, _)
ReadScattered(f, buf, p, size, len, stride, n, actRead) ==
  IF n >= len THEN [buf |-> buf, pos |-> p, actRead |-> actRead]
  ELSE LET r == Fread(f, buf, n * size, p, size)
       IN ReadScattered(f, r.buf, r.pos + (stride - 1) * size, size, len, stride,
                        n + 1, actRead + (IF r.got = size THEN 1 ELSE 0))

\* Read without the seek between samples: a contiguous read at every stride
ReadMutNoSkip(f, buf, p, size, len, stride) ==
  LET r == Fread(f, buf, 0, p, size * len)
  IN [buf |-> r.buf, pos |-> r.pos, actRead |-> r.got \div size]

\* MultiFormatReader::Read
Read(f, buf, p, size, len, stride) ==
  IF stride > 1
  THEN ReadScattered(f, buf, p, size, len, stride, 0, 0)
  ELSE LET r == Fread(f, buf, 0, p, size * len)
       IN [buf |-> r.buf, pos |-> r.pos, actRead |-> r.got \div size]

\* SwapBytes rotating each group by one byte instead of reversing it
SwapBytesMutRotate(buf, size, len) ==
  [j \in 1..Len(buf) |->
     IF j - 1 < size * len
     THEN LET i == (j - 1) \div size
              n == (j - 1) % size
          IN buf[i * size + ((n + 1) % size) + 1]
     ELSE buf[j]]

\* MultiFormatReader::SwapBytes: reverses each of the len groups of size bytes
SwapBytes(buf, size, len) ==
  [j \in 1..Len(buf) |->
     IF j - 1 < size * len
     THEN LET i == (j - 1) \div size
              n == (j - 1) % size
          IN buf[i * size + (size - n - 1) + 1]
     ELSE buf[j]]

\* MultiFormatReader::ReadSamples: host is mEnd.Which()
ReadSamples(f, buf, p, len, stride, format, end, host) ==
  LET r == Read(f, buf, p, Width(format), len, stride)
  IN IF host # end /\ Width(format) > 1
     THEN [buf |-> SwapBytes(r.buf, Width(format), len), pos |-> r.pos,
           actRead |-> r.actRead]
     ELSE r

(* ---------------------------------------------------------------------- *)
(* Float values of the sample buffers                                      *)
(*   [t |-> "F", v |-> k]  the integer k, held exactly                     *)
(*   [t |-> "P"]           a finite value known to be > 0                  *)
(*   [t |-> "U"]           a float the model does not determine            *)
(*   [t |-> "N"]           NaN                                             *)
(* ---------------------------------------------------------------------- *)
Fin(k) == [t |-> "F", v |-> k]
POS == [t |-> "P", v |-> 0]
UNK == [t |-> "U", v |-> 0]
NAN == [t |-> "N", v |-> 0]
IsZero(x) == x.t = "F" /\ x.v = 0

\* x + y and x - y in float arithmetic
AAdd(x, y) ==
  IF x.t = "N" \/ y.t = "N" THEN NAN
  ELSE IF x.t = "F" /\ y.t = "F" THEN Fin(x.v + y.v)
  ELSE UNK

ASub(x, y) ==
  IF x.t = "N" \/ y.t = "N" THEN NAN
  ELSE IF x.t = "F" /\ y.t = "F" THEN Fin(x.v - y.v)
  ELSE UNK

\* x * w for a window coefficient w ("W" finite, "N" NaN)
AMulWin(x, w) ==
  IF x.t = "N" \/ w = "N" THEN NAN
  ELSE IF IsZero(x) THEN Fin(0)
  ELSE UNK

\* x / d in float arithmetic: 0/0 is NaN, x/0 is an infinity
ADiv(x, d) ==
  IF x.t = "N" \/ d.t = "N" THEN NAN
  ELSE IF IsZero(d) THEN (IF IsZero(x) THEN NAN ELSE UNK)
  ELSE IF d.t = "P" /\ IsZero(x) THEN Fin(0)
  ELSE UNK

(* ---------------------------------------------------------------------- *)
(* FormatClassifier: sample conversion and the math kernels                *)
(* ---------------------------------------------------------------------- *)
\* the classes the constructor pushes, in order
mClasses ==
  << [format |-> "Int8",   endian |-> "Little"],
     [format |-> "Int16",  endian |-> "Little"],
     [format |-> "Uint8",  endian |-> "Little"],
     [format |-> "Float",  endian |-> "Little"],
     [format |-> "Double", endian |-> "Little"],
     [format |-> "Int8",   endian |-> "Big"],
     [format |-> "Int16",  endian |-> "Big"],
     [format |-> "Uint8",  endian |-> "Big"],
     [format |-> "Float",  endian |-> "Big"],
     [format |-> "Double", endian |-> "Big"] >>

NumClasses == Len(mClasses)

\* the value of sample n (0-based) of the raw buffer read as a host-order T
Decode(raw, n, format, host) ==
  LET w == Width(format)
      b(k) == raw[n * w + k]
      u16 == IF host = "Little" THEN b(1) + 256 * b(2) ELSE 256 * b(1) + b(2)
      allAre(c) == \A k \in 1..w : b(k) = c
  IN CASE format = "Uint8" -> Fin(b(1))
       [] format = "Int8" -> Fin(IF b(1) >= 128 THEN b(1) - 256 ELSE b(1))
       [] format = "Uint16" -> Fin(u16)
       [] format = "Int16" -> Fin(IF u16 >= 32768 THEN u16 - 65536 ELSE u16)
       [] OTHER -> IF allAre(0) THEN Fin(0)
                   ELSE IF allAre(255) /\ format \in {"Float", "Double"} THEN NAN
                   ELSE UNK

\* FormatClassifier::ConvertSamples and ToFloat: always cSiglen samples
ConvertSamples(raw, format, host) ==
  [n \in 1..cSiglen |-> Decode(raw, n - 1, format, host)]

\* FormatClassifier::Add over len elements
Add(in1, in2, len) ==
  [n \in 1..Len(in1) |-> IF n <= len THEN AAdd(in1[n], in2[n]) ELSE in1[n]]

\* FormatClassifier::Sub
Sub(in, subt, len) ==
  [n \in 1..Len(in) |-> IF n <= len THEN ASub(in[n], subt) ELSE in[n]]

\* Div guarded against a zero divisor: the buffer is left as it is
DivMutSkipZero(in, div, len) ==
  IF IsZero(div) THEN in
  ELSE [n \in 1..Len(in) |-> IF n <= len THEN ADiv(in[n], div) ELSE in[n]]

\* FormatClassifier::Div
Div(in, div, len) ==
  [n \in 1..Len(in) |-> IF n <= len THEN ADiv(in[n], div) ELSE in[n]]

\* FormatClassifier::Mean: the sum of len elements, divided by len
Mean(in, len) ==
  IF \E n \in 1..len : in[n].t = "N" THEN NAN
  ELSE IF \A n \in 1..len : IsZero(in[n]) THEN Fin(0)
  ELSE UNK

\* FormatClassifier::Rms: sqrtf of the sum of squares
Rms(in, len) ==
  IF \E n \in 1..len : in[n].t = "N" THEN NAN
  ELSE IF \E n \in 1..len : in[n].t = "U" THEN UNK
  ELSE IF \A n \in 1..len : IsZero(in[n]) THEN Fin(0)
  ELSE POS

\* rms >= cMinRms (1e-12): the RMS of integer samples is 0 or at least 1
RmsGeMin(rms) == rms.t = "P"

\* rms != rms
IsNaN(rms) == rms.t = "N"

\* FormatClassifier::CalcSincwin: sinf(x)/x is 0/0 where x = 0, that is 2n = len-1
CalcSincwin(len) ==
  [n \in 1..len |-> IF 2 * (n - 1) = len - 1 THEN "N" ELSE "W"]

\* FormatClassifier::FilterPolyphase: x windowed in place, y the folded signal;
\* elements of y past outlen are left as they were
FilterPolyphase(x, y, win, p, len) ==
  LET outlen == len \div p
      xw == [n \in 1..Len(x) |-> IF n <= len THEN AMulWin(x[n], win[n]) ELSE x[n]]
      acc[k \in 0..p] ==
        IF k = 0 THEN [n \in 1..Len(y) |-> IF n <= outlen THEN Fin(0) ELSE y[n]]
        ELSE [n \in 1..Len(y) |->
                IF n <= outlen THEN AAdd(acc[k - 1][n], xw[(k - 1) * outlen + n])
                ELSE acc[k - 1][n]]
  IN [x |-> xw, y |-> acc[p]]

(* ---------------------------------------------------------------------- *)
(* Single precision frequencies, in units of 2^-28                         *)
(* ---------------------------------------------------------------------- *)
\* powers of two of the unit arithmetic below
Two14 == 2 ^ 14
Two23 == 2 ^ 23

\* the float literals of the CalcPower calls of Run, in units of 2^-28
F_0_25 == 67108864
F_0_5 == 134217728
F_0_45 == 120795952
F_0_1 == 26843546
F_0_40 == 107374184
F_0_2 == 53687092

\* round to nearest, ties to even, to a 24 bit significand
FRound(v) ==
  LET a == IF v < 0 THEN -v ELSE v
      u == CHOOSE w \in {1, 2, 4, 8, 16, 32, 64} :
             (w = 1 \/ a >= w * Two23) /\ (w = 64 \/ a < 2 * w * Two23)
      q == a \div u
      r == a % u
      m == IF 2 * r < u THEN q
           ELSE IF 2 * r > u THEN q + 1
           ELSE IF q % 2 = 0 THEN q ELSE q + 1
  IN IF v < 0 THEN -(m * u) ELSE m * u

\* a + b, a - b and a / 2.0f on floats (the halves used here are exact)
FAdd(a, b) == FRound(a + b)
FSub(a, b) == FRound(a - b)
FHalf(a) == a \div 2

\* floor((double) fc * n): the product is exact in double precision
FloorMul(fc, n) ==
  LET h == fc \div Two14
      l == fc % Two14
  IN (h * n + ((l * n) \div Two14)) \div Two14

\* the % of C: the result has the sign of the dividend
CRem(a, b) == IF a >= 0 THEN a % b ELSE -((-a) % b)

(* ---------------------------------------------------------------------- *)
(* SpecPowerMeter                                                          *)
(* Powers and features:  [k |-> "R", n, d]  the ratio n/d (d > 0),         *)
(*   [k |-> "I"] +infinity, [k |-> "N"] NaN, [k |-> "M"] -FLT_MAX          *)
(* ---------------------------------------------------------------------- *)
PW(n) == [k |-> "R", n |-> n, d |-> 1]
PNAN == [k |-> "N", n |-> 0, d |-> 1]
PINF == [k |-> "I", n |-> 0, d |-> 1]
NEGFLTMAX == [k |-> "M", n |-> 0, d |-> 1]

\* Freq2Bin without the remainder
Freq2BinMutNoWrap(fc, sigLen) == FloorMul(fc, sigLen)

\* SpecPowerMeter::Freq2Bin
Freq2Bin(fc, sigLen) == CRem(FloorMul(fc, sigLen), sigLen)

\* the boundary bins with the whole bandwidth on either side of fc
CalcBinsMutFullBw(fc, bw, sigLen) ==
  LET loBin == Freq2Bin(FSub(fc, bw), sigLen)
      hiBin == Freq2Bin(FAdd(fc, bw), sigLen)
  IN [lo |-> loBin, hi |-> IF loBin = hiBin THEN loBin + 1 ELSE hiBin]

\* the boundary bins of SpecPowerMeter::CalcPower
CalcBins(fc, bw, sigLen) ==
  LET loBin == Freq2Bin(FSub(fc, FHalf(bw)), sigLen)
      hiBin == Freq2Bin(FAdd(fc, FHalf(bw)), sigLen)
  IN [lo |-> loBin, hi |-> IF loBin = hiBin THEN loBin + 1 ELSE hiBin]

\* cDitherF1 and cDitherF2 in hundredths
cDitherF1 == 31
cDitherF2 == 42

\* FormatClassifier::CalcEqualizerMask: "1" no attenuation, "r" the ramp, "A" the
\* full attenuation, "0" an element the loop never writes
CalcEqualizerMask(len) ==
  LET len2 == len \div 2
      part(n) == IF 100 * n < cDitherF1 * len THEN "1"
                 ELSE IF 100 * n < cDitherF2 * len THEN "r"
                 ELSE "A"
  IN [j \in 1..len |->
        IF j - 1 < len2 THEN part(j - 1)
        ELSE IF len - j < len2 THEN part(len - j)
        ELSE "0"]

\* the mask a SpecPowerMeter is constructed with
UnitMask(len) == [j \in 1..len |-> "1"]

\* the power of one bin after the mask has multiplied Re and Im
Equalize(b, m) ==
  IF b.k = "N" THEN PNAN
  ELSE IF m = "1" THEN b
  ELSE IF m = "0" THEN PW(0)
  ELSE PW((b.n + 1) \div 2)

PAdd(a, b) == IF a.k = "N" \/ b.k = "N" THEN PNAN ELSE PW(a.n + b.n)

\* SpecPowerMeter::CalcBinPower over the bin powers spec[n] = Re[n]^2 + Im[n]^2;
\* bins outside the arrays are not summed here (CalcPower reports them)
CalcBinPower(spec, loBin, hiBin, eqEnabled, mask) ==
  LET term(n) ==
        IF n < 0 \/ n >= Len(spec) THEN PW(0)
        ELSE IF eqEnabled = 1 THEN Equalize(spec[n + 1], mask[n + 1])
        ELSE spec[n + 1]
      \* the sum of the terms lo..hi-1, split in halves to keep the evaluation flat
      RECURSIVE sum(_, _)
      sum(lo, hi) ==
        IF lo >= hi THEN PW(0)
        ELSE IF hi = lo + 1 THEN PAdd(PW(0), term(lo))
        ELSE PAdd(sum(lo, (lo + hi) \div 2), sum((lo + hi) \div 2, hi))
  IN sum(loBin, hiBin)

\* the bin powers of FFT(mSigLen, 0, sig, ...): NaN everywhere if a sample is NaN,
\* zero if the signal is zero, and otherwise the levels of stand-in number key
FFT(sig, sigLen, key) ==
  IF \E n \in 1..sigLen : sig[n].t = "N" THEN [j \in 1..sigLen |-> PNAN]
  ELSE IF \A n \in 1..sigLen : IsZero(sig[n]) THEN [j \in 1..sigLen |-> PW(0)]
  ELSE [j \in 1..sigLen |-> PW((key + (j - 1) * (key + 1)) % PowLevels)]

\* SpecPowerMeter::CalcPower
CalcPower(sig, fc, bw, sigLen, eqEnabled, mask, key) ==
  LET b == CalcBins(fc, bw, sigLen)
  IN [lo |-> b.lo, hi |-> b.hi,
      pwr |-> CalcBinPower(FFT(sig, sigLen, key), b.lo, b.hi, eqEnabled, mask)]

(* ---------------------------------------------------------------------- *)
(* Features and the decision                                               *)
(* ---------------------------------------------------------------------- *)
\* a / b on floats
FDiv(a, b) ==
  IF a.k = "N" \/ b.k = "N" THEN PNAN
  ELSE IF b.n = 0 THEN (IF a.n = 0 THEN PNAN ELSE PINF)
  ELSE [k |-> "R", n |-> a.n, d |-> b.n]

\* a > b on floats: false if either is NaN
FGt(a, b) ==
  /\ a.k # "N" /\ b.k # "N"
  /\ \/ a.k = "I" /\ b.k # "I"
     \/ a.k = "R" /\ b.k = "M"
     \/ a.k = "R" /\ b.k = "R" /\ a.n * b.d > b.n * a.d

\* FormatClassifier::Max(in, len, maxidx); idx is 0-based
Max(in, len) ==
  LET acc[n \in 0..len] ==
        IF n = 0 THEN [max |-> NEGFLTMAX, idx |-> 0]
        ELSE IF FGt(in[n], acc[n - 1].max)
             THEN [max |-> in[n], idx |-> n - 1]
             ELSE acc[n - 1]
  IN acc[len]

(* ---------------------------------------------------------------------- *)
(* The files                                                               *)
(* ---------------------------------------------------------------------- *)
\* the longest file on which the signal search fails MaxProbes times
MaxFileLen == cHeaderSkip + (1 + MaxProbes * cSigSearchGridSize) * cSiglen

\* a file long enough for a full first window of every class and stride
LongLen == cHeaderSkip + 16 * cSiglen

\* a file of len bytes: z zero bytes, then the periodic pattern pat
MkFile(len, z, pat) ==
  [i \in 1..len |-> IF i <= z THEN 0 ELSE pat[((i - 1) % Len(pat)) + 1]]

\* one non-zero byte in every 16, at the offsets r mod 16
Sparse16(r) == [j \in 1..16 |-> IF j - 1 = r THEN 1 ELSE 0]

Patterns ==
  { <<0>>, <<1>>, <<255>>, <<1, 0>>, Sparse16((cHeaderSkip + 15) % 16) }

\* silence up to the end of the header and of each of the first probed windows
ZeroLens == {0} \cup { cHeaderSkip + j * cSigSearchGridSize * cSiglen - (cSigSearchGridSize - 1) * cSiglen :
                       j \in 1..MaxProbes }

\* the files the signal search is run on
Files ==
  { MkFile(len, z, pat) : len \in 0..MaxFileLen, z \in ZeroLens, pat \in Patterns }

\* the files a whole construction is run on
RunFiles ==
  { MkFile(len, z, pat) : len \in { l \in 0..MaxFileLen : l % RunStep = 0 },
                          z \in {0, cHeaderSkip + cSiglen}, pat \in Patterns }
  \cup { MkFile(LongLen, 0, pat) : pat \in Patterns }

(* ---------------------------------------------------------------------- *)
(* State                                                                   *)
(* ---------------------------------------------------------------------- *)
VARIABLES
  file,            \* the bytes of the file
  fileOk,          \* whether fopen succeeds
  host,            \* MachineEndianness::Which() of the host
  pos,             \* file position of mReader
  pc,              \* where the constructor (or the stand-alone object) is
  mRawBuffer, mSigBuffer, mAuxBuffer, mWinBuffer,
  mSignalStart,
  fss,             \* locals of FindSignalStart
  cand, stride,    \* loop variable n and stride of the current pass of Run
  mPLo, mPHiM, mPHiS, mMonoFeat, mStereoFeat,
  mEqEnabled, mEqMask, mSigLen,
  rms,             \* the local rms of the current pass
  seed,            \* which stand-in the external FFT is
  mResultChannels, mResultFormat,
  hist             \* history of the current step, read by the properties only

vars == << file, fileOk, host, pos, pc, mRawBuffer, mSigBuffer, mAuxBuffer,
           mWinBuffer, mSignalStart, fss, cand, stride, mPLo, mPHiM, mPHiS,
           mMonoFeat, mStereoFeat, mEqEnabled, mEqMask, mSigLen, rms, seed,
           mResultChannels, mResultFormat, hist >>

readerVars == << file, fileOk, host, pos, mRawBuffer >>
bufVars == << mSigBuffer, mAuxBuffer, mWinBuffer >>
featVars == << mPLo, mPHiM, mPHiS, mMonoFeat, mStereoFeat >>
meterVars == << mEqEnabled, mEqMask, mSigLen >>
resultVars == << mResultChannels, mResultFormat >>

NoClass == [format |-> "none", endian |-> "none"]
NoFss == [actRead |-> 0, rms |-> Fin(0), signalFound |-> 0, i |-> 0, probeOff |-> 0]
NoHist == [op |-> "none"]

Zeros(len) == [j \in 1..len |-> 0]
FZeros(len) == [j \in 1..len |-> Fin(0)]

\* the state before the constructor runs, members not yet constructed
InitCommon ==
  /\ pos = 0
  /\ mRawBuffer = << >> /\ mSigBuffer = << >> /\ mAuxBuffer = << >>
  /\ mWinBuffer = << >>
  /\ mSignalStart = 0
  /\ fss = NoFss
  /\ cand = 0 /\ stride = 1
  /\ mPLo = << >> /\ mPHiM = << >> /\ mPHiS = << >>
  /\ mMonoFeat = << >> /\ mStereoFeat = << >>
  /\ mEqEnabled = 0 /\ mEqMask = << >> /\ mSigLen = 0
  /\ rms = Fin(0)
  /\ seed = 0
  /\ mResultChannels = 0 /\ mResultFormat = NoClass
  /\ hist = NoHist

\* a construction on a file of RunFiles, or on a file that cannot be opened
Init ==
  /\ InitCommon
  /\ fileOk \in BOOLEAN
  /\ file \in (IF fileOk THEN RunFiles ELSE {<< >>})
  /\ host \in Endians
  /\ pc = "ctor"

\* a construction on a file of Files, followed up to the end of the signal search
InitSearch ==
  /\ InitCommon
  /\ fileOk \in BOOLEAN
  /\ file \in (IF fileOk THEN Files ELSE {<< >>})
  /\ host \in Endians
  /\ pc = "ctor"

(* ---------------------------------------------------------------------- *)
(* The constructors                                                        *)
(* ---------------------------------------------------------------------- *)
\* a reader constructor that never throws
CtorReaderMutNoThrow == TRUE

\* MultiFormatReader::MultiFormatReader: whether construction succeeds; fopen
\* succeeds on every file that exists and is readable, empty files included
CtorReader == fileOk

\* FormatClassifier::FormatClassifier up to the call of FindSignalStart: the
\* reader is constructed first and its exception ends the construction
Construct ==
  /\ pc = "ctor"
  /\ IF CtorReader
     THEN /\ pc' = "fss"
          /\ mSigLen' = cSiglen \div cPolyTaps
          /\ mEqMask' = UnitMask(cSiglen \div cPolyTaps)
          /\ mSigBuffer' = FZeros(cSiglen)
          /\ mAuxBuffer' = FZeros(cSiglen)
          /\ mWinBuffer' = FZeros(cSiglen)
          /\ mRawBuffer' = Zeros(cRawSiglen)
          /\ mSignalStart' = cHeaderSkip
     ELSE /\ pc' = "failed"
          /\ UNCHANGED << mSigLen, mEqMask, bufVars, mRawBuffer, mSignalStart >>
  /\ hist' = [op |-> "ctor"]
  /\ UNCHANGED << file, fileOk, host, pos, fss, cand, stride, featVars,
                  mEqEnabled, rms, seed, resultVars >>

(* ---------------------------------------------------------------------- *)
(* FindSignalStart                                                         *)
(* ---------------------------------------------------------------------- *)
\* the for loop of FindSignalStart: k further window reads in the probe format
RECURSIVE GridReads(_, _, _, _, _)
GridReads(f, h, r, k, off) ==
  IF k = 0 THEN [buf |-> r.buf, pos |-> r.pos, actRead |-> r.actRead, off |-> off]
  ELSE GridReads(f, h,
                 ReadSamples(f, r.buf, r.pos, cSiglen, 1, "Uint8", "Little", h),
                 k - 1, r.pos)

\* the reset, the dummy read of the header, the memset and the first read
FssBegin ==
  /\ pc = "fss"
  /\ LET r0 == ReadSamples(file, mRawBuffer, 0, cHeaderSkip, 1, "Uint8", "Little", host)
         r1 == ReadSamples(file, Zeros(cRawSiglen), r0.pos, cSiglen, 1,
                           "Uint8", "Little", host)
     IN /\ mRawBuffer' = r1.buf
        /\ pos' = r1.pos
        /\ mSigBuffer' = ConvertSamples(r1.buf, "Uint8", host)
        /\ fss' = [actRead |-> r1.actRead, rms |-> Fin(0), signalFound |-> 0,
                   i |-> 0, probeOff |-> r0.pos]
  /\ pc' = "fss_loop"
  /\ hist' = [op |-> "fss_begin"]
  /\ UNCHANGED << file, fileOk, host, mAuxBuffer, mWinBuffer, mSignalStart, cand,
                  stride, featVars, meterVars, rms, seed, resultVars >>

FssLoopCond == fss.actRead = cSiglen /\ ~IsNaN(fss.rms)

\* a for loop that reads one window less
GridCountMutShort == cSigSearchGridSize - 1

\* the number of windows the for loop reads between two probes
GridCount == cSigSearchGridSize

\* one iteration of the while loop
FssIterate ==
  /\ pc = "fss_loop"
  /\ FssLoopCond
  /\ LET r == Rms(mSigBuffer, cRmsProbeLen)
     IN IF RmsGeMin(r)
        THEN /\ fss' = [fss EXCEPT !.rms = r, !.signalFound = 1]
             /\ pc' = "fss_end"
             /\ UNCHANGED << mRawBuffer, pos, mSigBuffer >>
        ELSE LET g == GridReads(file, host,
                                [buf |-> mRawBuffer, pos |-> pos,
                                 actRead |-> fss.actRead], GridCount, fss.probeOff)
             IN /\ mRawBuffer' = g.buf
                /\ pos' = g.pos
                /\ IF g.actRead = cSiglen
                   THEN /\ mSigBuffer' = ConvertSamples(g.buf, "Uint8", host)
                        /\ fss' = [fss EXCEPT !.rms = r, !.actRead = g.actRead,
                                              !.i = @ + 1, !.probeOff = g.off]
                   ELSE /\ mSigBuffer' = mSigBuffer
                        /\ fss' = [fss EXCEPT !.rms = r, !.actRead = g.actRead]
                /\ pc' = "fss_loop"
  /\ hist' = [op |-> "fss_iterate"]
  /\ UNCHANGED << file, fileOk, host, mAuxBuffer, mWinBuffer, mSignalStart, cand,
                  stride, featVars, meterVars, rms, seed, resultVars >>

\* a signal start that ignores the detection
SignalStartMutAlwaysHeader(signalFound, i) == cHeaderSkip

\* a signal start that leaves out the header on a detection
SignalStartMutNoHeader(signalFound, i) ==
  IF signalFound > 0 THEN i * cSigSearchGridSize * cSiglen ELSE cHeaderSkip

\* the signal start offset in bytes
SignalStart(signalFound, i) ==
  IF signalFound > 0 THEN cHeaderSkip + (i * cSigSearchGridSize * cSiglen)
  ELSE cHeaderSkip

\* the end of FindSignalStart, and the constructor up to the call of Run:
\* the window and the equalizer mask
FssFinish ==
  /\ \/ pc = "fss_end"
     \/ pc = "fss_loop" /\ ~FssLoopCond
  /\ mSignalStart' = SignalStart(fss.signalFound, fss.i)
  /\ mWinBuffer' = CalcSincwin(cSiglen)
  /\ mEqMask' = CalcEqualizerMask(mSigLen)
  /\ pc' = "run"
  /\ hist' = [op |-> "fss_finish"]
  /\ UNCHANGED << readerVars, mSigBuffer, mAuxBuffer, fss, cand, stride, featVars,
                  mEqEnabled, mSigLen, rms, seed, resultVars >>

(* ---------------------------------------------------------------------- *)
(* ReadSignal                                                              *)
(* ---------------------------------------------------------------------- *)
\* an iteration that adds the window read to the sum whether or not the read
\* was full
ReadSignalIterMutAddShort(f, h, format, strd, st) ==
  LET r == ReadSamples(f, st.raw, st.pos, cSiglen, strd, format.format,
                       format.endian, h)
      conv == ConvertSamples(r.buf, format.format, h)
      d == ReadSamples(f, r.buf, r.pos, st.n + 1, strd, format.format,
                       format.endian, h)
      next ==
        IF st.n = 0
        THEN [raw |-> r.buf, pos |-> r.pos, sig |-> conv, aux |-> st.aux]
        ELSE [raw |-> d.buf, pos |-> d.pos, sig |-> Add(st.sig, conv, cSiglen),
              aux |-> conv]
  IN [raw |-> next.raw, pos |-> next.pos, sig |-> next.sig,
      aux |-> next.aux, n |-> st.n + 1, actRead |-> r.actRead,
      log |-> Append(st.log, [off |-> st.pos, actRead |-> r.actRead,
                              added |-> TRUE])]

\* one iteration of the do-while loop of ReadSignal from state st; the entry
\* added to st.log gives the offset the window started at, the samples read and
\* whether the window went into the sum
ReadSignalIter(f, h, format, strd, st) ==
  LET r == ReadSamples(f, st.raw, st.pos, cSiglen, strd, format.format,
                       format.endian, h)
      full == r.actRead = cSiglen
      conv == ConvertSamples(r.buf, format.format, h)
      d == ReadSamples(f, r.buf, r.pos, st.n + 1, strd, format.format,
                       format.endian, h)
      next ==
        IF st.n = 0
        THEN [raw |-> r.buf, pos |-> r.pos, sig |-> conv, aux |-> st.aux]
        ELSE IF full
        THEN [raw |-> d.buf, pos |-> d.pos, sig |-> Add(st.sig, conv, cSiglen),
              aux |-> conv]
        ELSE [raw |-> r.buf, pos |-> r.pos, sig |-> st.sig, aux |-> st.aux]
  IN [raw |-> next.raw, pos |-> next.pos, sig |-> next.sig,
      aux |-> next.aux, n |-> st.n + 1, actRead |-> r.actRead,
      log |-> Append(st.log, [off |-> st.pos, actRead |-> r.actRead,
                              added |-> (st.n = 0 \/ full)])]

\* the do-while loop of ReadSignal from state st on: the iterations go on while
\* n < cNumInts and the last read was a full window
RECURSIVE ReadSignalLoop(_, _, _, _, _)
ReadSignalLoop(f, h, format, strd, st) ==
  CHOOSE res \in
    { IF st2.n < cNumInts /\ st2.actRead = cSiglen
      THEN ReadSignalLoop(f, h, format, strd, st2)
      ELSE st2 : st2 \in {ReadSignalIter(f, h, format, strd, st)} } : TRUE

\* FormatClassifier::ReadSignal, after mReader.Reset(mSignalStart)
ReadSignal(f, h, format, strd, raw, sig, aux, start) ==
  ReadSignalLoop(f, h, format, strd,
                 [raw |-> raw, pos |-> start, sig |-> sig, aux |-> aux, n |-> 0,
                  actRead |-> 0, log |-> << >>])

(* ---------------------------------------------------------------------- *)
(* Run                                                                     *)
(* ---------------------------------------------------------------------- *)
\* the stand-in the FFT of pass (c, strd) takes its levels from
Key(sd, c, strd) == sd * (c + strd) + c + 2 * strd

\* the clears and EnableEqualizer at the head of Run
RunBegin ==
  /\ pc = "run"
  /\ mPLo' = << >> /\ mPHiM' = << >> /\ mPHiS' = << >>
  /\ mMonoFeat' = << >> /\ mStereoFeat' = << >>
  /\ mEqEnabled' = 1
  /\ cand' = 0 /\ stride' = 1
  /\ seed' \in 0..MaxSeed
  /\ pc' = "read"
  /\ hist' = [op |-> "run_begin"]
  /\ UNCHANGED << readerVars, bufVars, mSignalStart, fss, mEqMask, mSigLen, rms,
                  resultVars >>

\* ReadSignal(mClasses[n], stride)
ReadStep ==
  /\ pc = "read"
  /\ \E r \in {ReadSignal(file, host, mClasses[cand + 1], stride, mRawBuffer,
                          mSigBuffer, mAuxBuffer, mSignalStart)} :
        /\ mRawBuffer' = r.raw
        /\ pos' = r.pos
        /\ mSigBuffer' = r.sig
        /\ mAuxBuffer' = r.aux
        /\ hist' = [op |-> "read", log |-> r.log, n |-> r.n]
  /\ pc' = "filter"
  /\ UNCHANGED << file, fileOk, host, mWinBuffer, mSignalStart, fss, cand, stride,
                  featVars, meterVars, rms, seed, resultVars >>

\* FilterPolyphase, Mean, Sub and Rms of a pass
FilterStep ==
  /\ pc = "filter"
  /\ LET fp == FilterPolyphase(mSigBuffer, mAuxBuffer, mWinBuffer, cPolyTaps, cSiglen)
         smean == Mean(fp.y, mSigLen)
         y == Sub(fp.y, smean, mSigLen)
     IN /\ mSigBuffer' = fp.x
        /\ mAuxBuffer' = y
        /\ rms' = Rms(y, mSigLen)
  /\ pc' = "norm"
  /\ hist' = [op |-> "filter"]
  /\ UNCHANGED << readerVars, mWinBuffer, mSignalStart, fss, cand, stride,
                  featVars, meterVars, seed, resultVars >>

\* Div(&mAuxBuffer[0], rms, mFiltSiglen)
NormalizeStep ==
  /\ pc = "norm"
  /\ mAuxBuffer' = Div(mAuxBuffer, rms, mSigLen)
  /\ pc' = "power"
  /\ hist' = [op |-> "normalize", before |-> mAuxBuffer, rms |-> rms]
  /\ UNCHANGED << readerVars, mSigBuffer, mWinBuffer, mSignalStart, fss, cand,
                  stride, featVars, meterVars, rms, seed, resultVars >>

\* the pLo measured in the pass itself
PLoOfMutOwnPass(pLoVec, c, own) == own

\* the pLo the stereo feature of candidate c is computed from
PLoOf(pLoVec, c, own) == pLoVec[c + 1]

\* the CalcPower calls of a pass and its feature
PowerStep ==
  /\ pc = "power"
  /\ LET k == Key(seed, cand, stride)
         lo == CalcPower(mAuxBuffer, F_0_25, F_0_5, mSigLen, mEqEnabled, mEqMask, k)
         hiM == CalcPower(mAuxBuffer, F_0_45, F_0_1, mSigLen, mEqEnabled, mEqMask, k)
         hiS == CalcPower(mAuxBuffer, F_0_40, F_0_2, mSigLen, mEqEnabled, mEqMask, k)
         call(c, fc, bw) == [fc |-> fc, bw |-> bw, lo |-> c.lo, hi |-> c.hi,
                             eq |-> mEqEnabled, sigLen |-> mSigLen]
     IN IF stride = 1
        THEN /\ mPLo' = Append(mPLo, lo.pwr)
             /\ mPHiM' = Append(mPHiM, hiM.pwr)
             /\ mMonoFeat' = Append(mMonoFeat, FDiv(lo.pwr, hiM.pwr))
             /\ hist' = [op |-> "power", calls |-> << call(lo, F_0_25, F_0_5),
                                                     call(hiM, F_0_45, F_0_1) >>]
             /\ UNCHANGED << mPHiS, mStereoFeat >>
        ELSE /\ mPHiS' = Append(mPHiS, hiS.pwr)
             /\ mStereoFeat' = Append(mStereoFeat,
                                      FDiv(PLoOf(mPLo, cand, lo.pwr), hiS.pwr))
             /\ hist' = [op |-> "power", calls |-> << call(hiS, F_0_40, F_0_2) >>]
             /\ UNCHANGED << mPLo, mPHiM, mMonoFeat >>
  /\ cand' = cand + 1
  /\ pc' = IF cand + 1 < NumClasses THEN "read"
           ELSE IF stride = 1 THEN "switch" ELSE "decide"
  /\ UNCHANGED << readerVars, bufVars, mSignalStart, fss, stride, meterVars, rms,
                  seed, resultVars >>

\* DisableEqualizer between the two loops
SwitchStep ==
  /\ pc = "switch"
  /\ mEqEnabled' = 0
  /\ stride' = 2
  /\ cand' = 0
  /\ pc' = "read"
  /\ hist' = [op |-> "switch"]
  /\ UNCHANGED << readerVars, bufVars, mSignalStart, fss, featVars, mEqMask,
                  mSigLen, rms, seed, resultVars >>

\* a decision that gives no class when neither vector has a maximum
DecisionMutUnclassified(mono, stereo) ==
  LET m == Max(mono, NumClasses)
      s == Max(stereo, NumClasses)
  IN IF m.max.k = "M" /\ s.max.k = "M"
     THEN [channels |-> 0, format |-> NoClass, midx |-> m.idx, sidx |-> s.idx]
     ELSE IF FGt(m.max, s.max)
     THEN [channels |-> 1, format |-> mClasses[m.idx + 1], midx |-> m.idx, sidx |-> s.idx]
     ELSE [channels |-> 2, format |-> mClasses[s.idx + 1], midx |-> m.idx, sidx |-> s.idx]

\* "Get the results" at the end of Run
Decision(mono, stereo) ==
  LET m == Max(mono, NumClasses)
      s == Max(stereo, NumClasses)
  IN IF FGt(m.max, s.max)
     THEN [channels |-> 1, format |-> mClasses[m.idx + 1], midx |-> m.idx, sidx |-> s.idx]
     ELSE [channels |-> 2, format |-> mClasses[s.idx + 1], midx |-> m.idx, sidx |-> s.idx]

DecideStep ==
  /\ pc = "decide"
  /\ LET d == Decision(mMonoFeat, mStereoFeat)
     IN /\ mResultChannels' = d.channels
        /\ mResultFormat' = d.format
        /\ hist' = [op |-> "decide", midx |-> d.midx, sidx |-> d.sidx]
  /\ pc' = "done"
  /\ UNCHANGED << readerVars, bufVars, mSignalStart, fss, cand, stride, featVars,
                  meterVars, rms, seed >>

Next ==
  \/ Construct
  \/ FssBegin
  \/ FssIterate
  \/ FssFinish
  \/ RunBegin
  \/ ReadStep
  \/ FilterStep
  \/ NormalizeStep
  \/ PowerStep
  \/ SwitchStep
  \/ DecideStep

Spec == Init /\ [][Next]_vars

NextSearch ==
  \/ Construct
  \/ FssBegin
  \/ FssIterate
  \/ FssFinish

SpecSearch == InitSearch /\ [][NextSearch]_vars

TypeOK == pc \in {"ctor", "failed", "fss", "fss_loop", "fss_end", "run", "read",
                  "filter", "norm", "power", "switch", "decide", "done",
                  "reader", "rd_pos", "rd_done", "rd_swap1", "rd_swap2", "meter"}

(* ---------------------------------------------------------------------- *)
(* A MultiFormatReader on its own                                          *)
(* ---------------------------------------------------------------------- *)
RdStrides == {1, 2, 3}
RdFormats == {"Uint8", "Int16", "Float", "Double"}

\* long enough for MaxRdCount samples of 8 bytes at stride 3
MaxRdLen == 8 * (3 * (MaxRdCount - 1) + 1)

\* the file whose byte at offset k is k + 1: every byte names its offset
Iota(len) == [i \in 1..len |-> i]

\* a caller's buffer whose bytes differ from each other and from the file's
Stale(len) == [i \in 1..len |-> 100 + i]

InitReader ==
  /\ InitCommon
  /\ fileOk = TRUE
  /\ file \in { Iota(len) : len \in 0..MaxRdLen }
  /\ host \in Endians
  /\ pc = "reader"

\* MultiFormatReader::Reset(startoffset), on a buffer the caller brings
RdReset ==
  /\ pc = "reader"
  /\ \E off \in 0..MaxRdOff : pos' = off
  /\ mRawBuffer' = Stale(8 * MaxRdCount)
  /\ pc' = "rd_pos"
  /\ hist' = [op |-> "reset"]
  /\ UNCHANGED << file, fileOk, host, bufVars, mSignalStart, fss, cand, stride,
                  featVars, meterVars, rms, seed, resultVars >>

\* MultiFormatReader::ReadSamples(buffer, len, stride, format, end)
RdRead ==
  /\ pc = "rd_pos"
  /\ \E len \in 0..MaxRdCount, strd \in RdStrides, format \in RdFormats,
        end \in Endians :
       LET r == ReadSamples(file, mRawBuffer, pos, len, strd, format, end, host)
       IN /\ mRawBuffer' = r.buf
          /\ pos' = r.pos
          /\ hist' = [op |-> "rd_read", p |-> pos, len |-> len, stride |-> strd,
                      format |-> format, end |-> end, actRead |-> r.actRead,
                      before |-> mRawBuffer]
  /\ pc' = "rd_done"
  /\ UNCHANGED << file, fileOk, host, bufVars, mSignalStart, fss, cand, stride,
                  featVars, meterVars, rms, seed, resultVars >>

\* MultiFormatReader::SwapBytes(buffer, size, len) on a buffer the caller brings
RdSwap ==
  /\ pc = "reader"
  /\ \E size \in {1, 2, 4, 8}, blen \in 1..(8 * MaxRdCount) :
       \E len \in 0..(blen \div size) :
         /\ mRawBuffer' = SwapBytes(Stale(blen), size, len)
         /\ hist' = [op |-> "swap", size |-> size, len |-> len,
                     before |-> Stale(blen)]
  /\ pc' = "rd_swap1"
  /\ UNCHANGED << file, fileOk, host, pos, bufVars, mSignalStart, fss, cand, stride,
                  featVars, meterVars, rms, seed, resultVars >>

\* SwapBytes once more, with the same size and length
RdSwapAgain ==
  /\ pc = "rd_swap1"
  /\ mRawBuffer' = SwapBytes(mRawBuffer, hist.size, hist.len)
  /\ hist' = [hist EXCEPT !.op = "swap2"]
  /\ pc' = "rd_swap2"
  /\ UNCHANGED << file, fileOk, host, pos, bufVars, mSignalStart, fss, cand, stride,
                  featVars, meterVars, rms, seed, resultVars >>

NextReader ==
  \/ RdReset
  \/ RdRead
  \/ RdSwap
  \/ RdSwapAgain

SpecReader == InitReader /\ [][NextReader]_vars

(* ---------------------------------------------------------------------- *)
(* A SpecPowerMeter on its own                                             *)
(* ---------------------------------------------------------------------- *)
\* the transform lengths tried: the short ones, and the multiples of 16 up to
\* MaxSigLen, the length of the source (1024 / 4 = 256) among them
MeterLens == { n \in 1..MaxSigLen : n <= 16 \/ n % 16 = 0 }

\* SpecPowerMeter::SpecPowerMeter(sigLen); the caller's signal is in mAuxBuffer
InitMeter ==
  /\ pos = 0
  /\ mRawBuffer = << >> /\ mSigBuffer = << >> /\ mWinBuffer = << >>
  /\ mSignalStart = 0
  /\ fss = NoFss
  /\ cand = 0 /\ stride = 1
  /\ mPLo = << >> /\ mPHiM = << >> /\ mPHiS = << >>
  /\ mMonoFeat = << >> /\ mStereoFeat = << >>
  /\ rms = Fin(0)
  /\ mResultChannels = 0 /\ mResultFormat = NoClass
  /\ hist = NoHist
  /\ fileOk = TRUE /\ file = << >> /\ host = "Little"
  /\ mSigLen \in MeterLens
  /\ mEqEnabled = 0
  /\ mEqMask = UnitMask(mSigLen)
  /\ \E x \in {Fin(0), UNK, NAN} : mAuxBuffer = [j \in 1..mSigLen |-> x]
  /\ seed \in 0..MaxSeed
  /\ pc = "meter"

\* SpecPowerMeter::SetEqualizer with the classifier's mask
MeterSetEqualizer ==
  /\ pc = "meter"
  /\ mEqMask' = CalcEqualizerMask(mSigLen)
  /\ hist' = [op |-> "set_equalizer"]
  /\ UNCHANGED << readerVars, bufVars, mSignalStart, fss, cand, stride, featVars,
                  mEqEnabled, mSigLen, rms, seed, resultVars, pc >>

\* SpecPowerMeter::EnableEqualizer
MeterEnableEqualizer ==
  /\ pc = "meter"
  /\ mEqEnabled' = 1
  /\ hist' = [op |-> "enable"]
  /\ UNCHANGED << readerVars, bufVars, mSignalStart, fss, cand, stride, featVars,
                  mEqMask, mSigLen, rms, seed, resultVars, pc >>

\* SpecPowerMeter::DisableEqualizer
MeterDisableEqualizer ==
  /\ pc = "meter"
  /\ mEqEnabled' = 0
  /\ hist' = [op |-> "disable"]
  /\ UNCHANGED << readerVars, bufVars, mSignalStart, fss, cand, stride, featVars,
                  mEqMask, mSigLen, rms, seed, resultVars, pc >>

\* the (fc, bw) of the CalcPower calls of Run
RunBands == { <<F_0_25, F_0_5>>, <<F_0_45, F_0_1>>, <<F_0_40, F_0_2>> }

\* SpecPowerMeter::CalcPower(sig, fc, bw)
MeterCalcPower ==
  /\ pc = "meter"
  /\ \E band \in RunBands :
       LET c == CalcPower(mAuxBuffer, band[1], band[2], mSigLen, mEqEnabled,
                          mEqMask, seed)
       IN hist' = [op |-> "power",
                   calls |-> << [fc |-> band[1], bw |-> band[2], lo |-> c.lo,
                                 hi |-> c.hi, eq |-> mEqEnabled,
                                 sigLen |-> mSigLen] >>,
                   pwr |-> c.pwr]
  /\ UNCHANGED << readerVars, bufVars, mSignalStart, fss, cand, stride, featVars,
                  meterVars, rms, seed, resultVars, pc >>

\* center frequencies and bandwidths a caller of CalcPower may pass, beyond the
\* bands of Run: 0.1, 0.25, 0.45 and 1.0; 0.1, 0.5, 1.0 and 2.0
MeterFcs == {F_0_1, F_0_25, F_0_45, 2 * F_0_5}
MeterBws == {F_0_1, F_0_5, 2 * F_0_5, 4 * F_0_5}

\* the two Freq2Bin calls at the head of SpecPowerMeter::CalcPower(sig, fc, bw),
\* for any band
MeterBoundaryBins ==
  /\ pc = "meter"
  /\ \E fc \in MeterFcs, bw \in MeterBws :
       LET fLo == FSub(fc, FHalf(bw))
           fHi == FAdd(fc, FHalf(bw))
       IN hist' = [op |-> "bins", fc |-> fc, bw |-> bw, fLo |-> fLo, fHi |-> fHi,
                   lo |-> Freq2Bin(fLo, mSigLen), hi |-> Freq2Bin(fHi, mSigLen)]
  /\ UNCHANGED << readerVars, bufVars, mSignalStart, fss, cand, stride, featVars,
                  meterVars, rms, seed, resultVars, pc >>

NextMeter ==
  \/ MeterSetEqualizer
  \/ MeterEnableEqualizer
  \/ MeterDisableEqualizer
  \/ MeterCalcPower
  \/ MeterBoundaryBins

SpecMeter == InitMeter /\ [][NextMeter]_vars

(* ---------------------------------------------------------------------- *)
(* Properties                                                              *)
(* ---------------------------------------------------------------------- *)
AllNaN(v) == \A c \in 1..Len(v) : v[c].k = "N"

\* C1: once the constructor has finished on a file that opens, whatever the
\* file's length and content, the channel count is 1 or 2 and the format is one
\* of the ten classes of mClasses.
C1_ResultValid ==
  pc = "done" =>
    /\ mResultChannels \in {1, 2}
    /\ \E c \in 1..NumClasses : mResultFormat = mClasses[c]

\* a run on a short all-zero file, every feature NaN, has finished
C1_Witness ==
  /\ pc = "done"
  /\ Len(file) < cHeaderSkip + 2 * cSiglen
  /\ AllNaN(mMonoFeat) /\ AllNaN(mStereoFeat)

\* the 0-based index the loop of Max ends with: the first index whose value is
\* a number no other value exceeds, 0 if every value is NaN
ArgMax(v) ==
  IF AllNaN(v) THEN 0
  ELSE (CHOOSE i \in 1..Len(v) :
          /\ v[i].k # "N"
          /\ \A j \in 1..Len(v) : ~FGt(v[j], v[i])
          /\ \A j \in 1..(i - 1) : v[j].k = "N" \/ FGt(v[i], v[j])) - 1

\* C2 as stated: the result is (mClasses[midx], 1) exactly when monoFeat[midx] >
\* stereoFeat[sidx], and (mClasses[sidx], 2) otherwise.
C2_Original ==
  pc = "done" =>
    LET midx == ArgMax(mMonoFeat)
        sidx == ArgMax(mStereoFeat)
    IN IF FGt(mMonoFeat[midx + 1], mStereoFeat[sidx + 1])
       THEN mResultChannels = 1 /\ mResultFormat = mClasses[midx + 1]
       ELSE mResultChannels = 2 /\ mResultFormat = mClasses[sidx + 1]

\* C3 as stated: on an empty file or a file that cannot be opened the
\* construction fails: no run, no result.
C3_Original ==
  (~fileOk \/ Len(file) = 0) =>
    /\ pc \in {"ctor", "failed"}
    /\ mResultChannels = 0 /\ mResultFormat = NoClass

\* C3 amended: on a file that cannot be opened the construction fails in the
\* reader's constructor: no signal search, no run, no result.
C3_OpenFailureIsFatal ==
  ~fileOk =>
    /\ pc \in {"ctor", "failed"}
    /\ mResultChannels = 0 /\ mResultFormat = NoClass

\* the construction on a file that cannot be opened has failed
C3_Witness == ~fileOk /\ pc = "failed"

\* C4: when the RMS of the DC-removed folded buffer is exactly 0, the
\* normalization leaves the buffer as it was.
C4_ZeroRmsSkipsDivision ==
  (hist.op = "normalize" /\ IsZero(hist.rms)) => mAuxBuffer = hist.before

\* the offset of the window the signal search probes after j unsuccessful attempts
ProbeOffset(j) == cHeaderSkip + j * cSigSearchGridSize * cSiglen

\* the window at offset off is in the file in full
WindowInFile(f, off) == off + cSiglen <= Len(f)

\* one of the first cRmsProbeLen bytes of the window at offset off is not zero:
\* its RMS as unsigned bytes is at least 1, so it reaches minRms
ProbePasses(f, off) ==
  WindowInFile(f, off) /\ \E k \in 0..(cRmsProbeLen - 1) : FileByte(f, off + k) # 0

\* the windows the for loop reads after probe j are in the file in full
GridInFile(f, j) == WindowInFile(f, ProbeOffset(j + 1))

\* the search detects signal after exactly j unsuccessful attempts
Detects(f, j) ==
  /\ ProbePasses(f, ProbeOffset(j))
  /\ \A m \in 0..(j - 1) : ~ProbePasses(f, ProbeOffset(m)) /\ GridInFile(f, m)

DetectsAt(f) == { j \in 0..(Len(f) \div cSiglen) : Detects(f, j) }

\* C5: after FindSignalStart, signalStart >= headerSkip; and signalStart is
\* exactly headerSkip when the search ends without a detection (a short read
\* at EOF before any probed window reaches minRms, an all-silent file included).
C5_SignalStartAtLeastHeader ==
  pc = "run" =>
    /\ mSignalStart >= cHeaderSkip
    /\ (DetectsAt(file) = {} => mSignalStart = cHeaderSkip)

\* the search has ended on an all-silent file of more than one window
C5_Witness ==
  /\ pc = "run"
  /\ Len(file) >= cHeaderSkip + 2 * cSiglen
  /\ \A k \in 1..Len(file) : file[k] = 0
  /\ mSignalStart = cHeaderSkip

\* the length of the silence the file of C6 starts with (2048 in the source:
\* the header and the first probed window)
SilenceLen == cHeaderSkip + cSiglen

\* SilenceLen zero bytes followed by non-zero bytes
SilenceThenSignal(f) ==
  /\ Len(f) > SilenceLen
  /\ \A k \in 1..Len(f) : (f[k] = 0) <=> (k <= SilenceLen)

\* C6 as stated: on a file of SilenceLen zero bytes followed by non-zero data,
\* signalStart >= SilenceLen.
C6_Original ==
  (pc = "run" /\ SilenceThenSignal(file)) => mSignalStart >= SilenceLen

\* C6 amended: on such a file that is long enough for the windows the search
\* skips and the window it probes next (headerSkip + (searchGridSize + 1) * S
\* bytes), signalStart is headerSkip + searchGridSize * S, past the silence; on
\* a shorter one the search ends at EOF and signalStart is headerSkip.
C6_LongEnoughAdvances ==
  (pc = "run" /\ SilenceThenSignal(file)) =>
    IF WindowInFile(file, ProbeOffset(1))
    THEN mSignalStart = ProbeOffset(1) /\ mSignalStart >= SilenceLen
    ELSE mSignalStart = cHeaderSkip

\* the search has ended on such a file that is long enough
C6_Witness ==
  /\ pc = "run"
  /\ SilenceThenSignal(file)
  /\ WindowInFile(file, ProbeOffset(1))
  /\ fss.signalFound = 1

\* C10: the probed window starts at headerSkip and moves by searchGridSize * S
\* bytes per unsuccessful attempt; when the search detects signal after j
\* unsuccessful attempts, signalStart = headerSkip + j * searchGridSize * S,
\* the offset the window that passed was read from.
C10_SignalStartIsProbedOffset ==
  /\ (pc \in {"fss_loop", "fss_end", "run"} /\ Len(file) >= cHeaderSkip) =>
        fss.probeOff = ProbeOffset(fss.i)
  /\ pc = "run" =>
        \A j \in DetectsAt(file) :
          /\ fss.i = j
          /\ mSignalStart = ProbeOffset(j)
          /\ mSignalStart = fss.probeOff
          /\ mSigBuffer = [n \in 1..cSiglen |-> Fin(FileByte(file, mSignalStart + n - 1))]

\* signal has been detected after two unsuccessful attempts
C10_Witness ==
  /\ pc = "run"
  /\ fss.signalFound = 1
  /\ fss.i = 2
  /\ mSignalStart = ProbeOffset(2)

\* the samples n < len whose size bytes at offset p + n * stride * size lie in f
CompleteSamples(f, p, len, strd, size) ==
  { n \in 0..(len - 1) : p + n * strd * size + size <= Len(f) }

\* C7: ReadSamples started at position p stores in sample n of the buffer the W
\* file bytes at offset p + n * stride * W (in file order, or reversed when the
\* endianness asked for is not the host's) for each n it read completely, and
\* returns the number of complete samples: len when enough bytes remain, the
\* partial count when EOF comes first.
C7_ReadSamplesStoresStridedBytes ==
  hist.op = "rd_read" =>
    LET w == Width(hist.format)
        done == CompleteSamples(file, hist.p, hist.len, hist.stride, w)
        swapped == host # hist.end
    IN /\ hist.actRead = Cardinality(done)
       /\ done = 0..(hist.actRead - 1)
       /\ \A n \in done : \A b \in 0..(w - 1) :
            mRawBuffer[n * w + b + 1] =
              FileByte(file, hist.p + n * hist.stride * w
                             + (IF swapped THEN w - 1 - b ELSE b))

\* a read at stride 2 of two-byte samples that EOF cut short after one sample
C7_Witness ==
  /\ hist.op = "rd_read"
  /\ hist.stride = 2 /\ hist.format = "Int16"
  /\ hist.len = 2 /\ hist.actRead = 1

\* C8: for every CalcPower call with the bands Run uses, on a meter of any
\* length N tried (256, the length of the source, among them), the bins summed
\* satisfy 0 <= loBin < hiBin <= N.
C8_BinsInsideSpectrum ==
  hist.op = "power" =>
    \A c \in 1..Len(hist.calls) :
      /\ 0 <= hist.calls[c].lo
      /\ hist.calls[c].lo < hist.calls[c].hi
      /\ hist.calls[c].hi <= hist.calls[c].sigLen

\* the band (0.45, 0.1) has been measured on a meter of length 256 = 1024 / 4
C8_Witness ==
  /\ hist.op = "power"
  /\ hist.calls[1].sigLen = 16 * 16
  /\ hist.calls[1].fc = F_0_45
  /\ hist.calls[1].lo = 102 /\ hist.calls[1].hi = 128

\* C9: SwapBytes applied twice with the same width and length restores the
\* buffer, and applied once with width 1 it leaves the buffer unchanged.
C9_SwapIsInvolution ==
  /\ hist.op = "swap2" => mRawBuffer = hist.before
  /\ (hist.op = "swap" /\ hist.size = 1) => mRawBuffer = hist.before

\* two groups of eight bytes have been swapped twice
C9_Witness ==
  /\ hist.op = "swap2"
  /\ hist.size = 8 /\ hist.len = 2
  /\ mRawBuffer = hist.before

\* the offset window j (1-based) of a ReadSignal call starts at when every read
\* before it was complete: j - 1 windows and the decoherence reads of 2, 3, ...,
\* j - 1 samples lie before it
WindowOffset(start, j, strd, w) ==
  start + strd * w * ((j - 1) * cSiglen
                      + (IF j >= 2 THEN ((j - 1) * j) \div 2 - 1 ELSE 0))

\* the window of cSiglen samples of format fmt the file holds at offset off,
\* at stride strd, as floats; samples the file ends before are decoded from
\* zero bytes
FileWindow(off, strd, fmt) ==
  ConvertSamples(ReadSamples(file, Zeros(cRawSiglen), off, cSiglen, strd,
                             fmt.format, fmt.endian, host).buf,
                 fmt.format, host)

\* the sum, in the order of the loop, of the file windows among the first j of
\* log that went into the sum
RECURSIVE SumAdded(_, _, _, _)
SumAdded(log, j, strd, fmt) ==
  IF j = 1
  THEN FileWindow(WindowOffset(mSignalStart, 1, strd, Width(fmt.format)), strd, fmt)
  ELSE IF log[j].added
  THEN Add(SumAdded(log, j - 1, strd, fmt),
           FileWindow(WindowOffset(mSignalStart, j, strd, Width(fmt.format)),
                      strd, fmt),
           cSiglen)
  ELSE SumAdded(log, j - 1, strd, fmt)

\* C11: after ReadSignal(class, stride), sigBuffer is the element-wise sum of k
\* windows, 1 <= k <= cNumInts: the first window read is always taken, a further
\* window is added exactly when its read returned cSiglen samples, and no window
\* is read after the first short read.  The windows are those the file holds at
\* the offsets the loop reaches; of a short first window, the samples read.
C11_SumOfFullWindows ==
  hist.op = "read" =>
    LET log == hist.log
        fmt == mClasses[cand + 1]
        w == Width(fmt.format)
        k == Cardinality({ j \in 1..Len(log) : log[j].added })
    IN /\ Len(log) = hist.n
       /\ 1 <= k /\ k <= Len(log) /\ Len(log) <= cNumInts
       /\ log[1].added
       /\ \A j \in 2..Len(log) : log[j].added <=> (log[j].actRead = cSiglen)
       /\ \A j \in 1..(Len(log) - 1) : log[j].actRead = cSiglen
       /\ \A j \in 1..Len(log) :
            log[j].added => log[j].off = WindowOffset(mSignalStart, j, stride, w)
       /\ \E sum \in {SumAdded(log, Len(log), stride, fmt)} :
            \A n \in 1..log[1].actRead : mSigBuffer[n] = sum[n]

\* a stereo read has summed two windows and stopped at a short third one
C11_Witness ==
  /\ hist.op = "read"
  /\ stride = 2
  /\ Len(hist.log) = 3
  /\ hist.log[2].added
  /\ hist.log[3].actRead < cSiglen
  /\ \E n \in 1..cSiglen : mSigBuffer[n] # Fin(0)

\* the control points of a pass of Run
PassPcs == {"read", "filter", "norm", "power"}

\* where Run stands: during the mono loop the mono vectors hold one entry per
\* candidate done and the stereo vectors none, the equalizer is enabled; during
\* the stereo loop the mono vectors are complete and the equalizer is disabled
C12_Progress ==
  /\ pc \in PassPcs =>
       /\ cand < NumClasses
       /\ IF stride = 1
          THEN /\ Len(mPLo) = cand /\ Len(mPHiM) = cand /\ Len(mMonoFeat) = cand
               /\ Len(mPHiS) = 0 /\ Len(mStereoFeat) = 0
               /\ mEqEnabled = 1
          ELSE /\ stride = 2
               /\ Len(mPLo) = NumClasses /\ Len(mMonoFeat) = NumClasses
               /\ Len(mPHiS) = cand /\ Len(mStereoFeat) = cand
               /\ mEqEnabled = 0
  /\ pc = "switch" =>
       stride = 1 /\ cand = NumClasses /\ Len(mMonoFeat) = NumClasses
                  /\ Len(mStereoFeat) = 0
  /\ pc \in {"decide", "done"} =>
       stride = 2 /\ cand = NumClasses /\ Len(mMonoFeat) = NumClasses
                  /\ Len(mStereoFeat) = NumClasses
  /\ hist.op = "power" =>
       /\ Len(hist.calls) = (IF stride = 1 THEN 2 ELSE 1)
       /\ \A c \in 1..Len(hist.calls) :
            hist.calls[c].eq = (IF stride = 1 THEN 1 ELSE 0)
  /\ \A c \in 1..Len(mStereoFeat) : mStereoFeat[c] = FDiv(mPLo[c], mPHiS[c])

\* what a step of Run does to the passes: a pass of candidate cand ends with
\* one entry appended to the vectors of its loop, for index cand, and moves to
\* candidate cand + 1; the stereo pass leaves mPLo as the mono passes stored it
\* and divides the entry of its own candidate; between the loops the stride
\* goes from 1 to 2 and the candidates start over
C12_Step ==
  /\ (pc \in {"read", "filter", "norm"}) =>
       UNCHANGED << cand, stride, featVars, mEqEnabled >>
  /\ (pc = "power" /\ stride = 1) =>
       /\ cand' = cand + 1 /\ stride' = 1
       /\ Len(mPLo') = cand + 1 /\ Len(mMonoFeat') = cand + 1
       /\ \A c \in 1..cand : mPLo'[c] = mPLo[c] /\ mMonoFeat'[c] = mMonoFeat[c]
       /\ mMonoFeat'[cand + 1] = FDiv(mPLo'[cand + 1], mPHiM'[cand + 1])
       /\ UNCHANGED << mPHiS, mStereoFeat >>
  /\ (pc = "power" /\ stride = 2) =>
       /\ cand' = cand + 1 /\ stride' = 2
       /\ UNCHANGED << mPLo, mPHiM, mMonoFeat >>
       /\ Len(mStereoFeat') = cand + 1
       /\ \A c \in 1..cand : mStereoFeat'[c] = mStereoFeat[c]
       /\ mStereoFeat'[cand + 1] = FDiv(mPLo[cand + 1], mPHiS'[cand + 1])
  /\ pc = "switch" =>
       /\ stride' = 2 /\ cand' = 0 /\ mEqEnabled' = 0
       /\ UNCHANGED featVars

\* C12: Run processes each candidate once with stride 1 and then once with
\* stride 2, the ten mono passes before the first stereo pass; the CalcPower
\* calls of a mono pass are made with the equalizer enabled, those of a stereo
\* pass with it disabled; stereoFeat[c] is pLo[c] of the mono pass of the same
\* candidate, divided by pHiS[c].
C12_PassesInOrder == []C12_Progress /\ [][C12_Step]_vars

\* the last stereo pass has ended, and a stereo feature is a number that differs
\* from the mono feature of its candidate
C12_Witness ==
  /\ hist.op = "power"
  /\ stride = 2 /\ cand = NumClasses
  /\ \E c \in 1..NumClasses :
       mStereoFeat[c].k = "R" /\ mStereoFeat[c] # mMonoFeat[c]

\* C13 as stated: Freq2Bin wraps every frequency, negative ones and those of 1
\* or more included, into a bin of 0..N-1.
C13_Original ==
  hist.op = "bins" =>
    /\ 0 <= hist.lo /\ hist.lo <= mSigLen - 1
    /\ 0 <= hist.hi /\ hist.hi <= mSigLen - 1

\* what ReadSignal leaves in sigBuffer when no byte of an earlier read is in
\* the raw buffer: the call on a zeroed raw buffer
SigFromCallOnly(fmt, strd) ==
  ReadSignal(file, host, fmt, strd, Zeros(cRawSiglen), FZeros(cSiglen),
             FZeros(cSiglen), mSignalStart).sig

\* C14 as stated: every value of sigBuffer at the end of ReadSignal(class,
\* stride) derives only from the file bytes read during the call, decoded in the
\* format of the class; bytes an earlier pass, a decoherence read or the signal
\* search left in rawBuffer do not contribute, a short first window included.
C14_Original ==
  hist.op = "read" => mSigBuffer = SigFromCallOnly(mClasses[cand + 1], stride)

====
